---- MODULE Spec2Model ----
(***************************************************************************)
(* The agent workflow orchestrator of the document-review tool: the App    *)
(* component's registry of agents, its credential state, the provider      *)
(* gateway, the run loop (runWorkflow) with its suspension points, the     *)
(* structured-output extractor and the result aggregator.                  *)
(*                                                                         *)
(* The repository holds three revisions of the App component; the model    *)
(* carries the revision as the variable `variant`, fixed by Init:          *)
(*   "App.tsx"   src/App.tsx          (multi-provider, no aggregator call) *)
(*   "part_002"  src/unnamed/part_002 (multi-provider, with aggregator)    *)
(*   "part_001"  src/unnamed/part_001 (Gemini only, document precondition) *)
(*                                                                         *)
(* A JavaScript string is a sequence of TLA+ strings (words or tokens):    *)
(* concatenation is \o, String.includes is a contiguous-subsequence test.  *)
(* A JavaScript value is a tagged record (Null, Undef, Str, Num, Arr, Obj).*)
(* One action is one synchronous stretch of a handler: from the event (or  *)
(* the resumption of an await) to the next await or the handler's end.     *)
(***************************************************************************)
EXTENDS Naturals, Sequences, FiniteSets, TLC

\* ------------------------------------------------------------------ bounds
MaxAgents == 2      \* agents in the registry at one time
MaxRuns   == 1      \* workflow runs in flight at one time
MaxRaceRuns == 2    \* workflow runs in flight at one time where runs race
MaxClock  == 2      \* largest reading of Date.now()
MaxLoads  == 1      \* file loads in flight at one time
MaxPages  == 1      \* pages of a PDF

\* --------------------------------------------------------- JavaScript values
Null     == [t |-> "null"]
Undef    == [t |-> "undef"]
Str(s)   == [t |-> "str", s |-> s]
Num(n)   == [t |-> "num", n |-> n]
Arr(a)   == [t |-> "arr", a |-> a]
Obj(o)   == [t |-> "obj", o |-> o]

\* JavaScript truthiness (ToBoolean)
Truthy(v) ==
  CASE v.t = "null"  -> FALSE
    [] v.t = "undef" -> FALSE
    [] v.t = "str"   -> v.s # <<>>
    [] v.t = "num"   -> v.n # 0
    [] OTHER         -> TRUE

\* String.prototype.includes on word sequences
Includes(s, sub) ==
  \E k \in 0..Len(s) :
    /\ k + Len(sub) <= Len(s)
    /\ \A j \in 1..Len(sub) : s[k + j] = sub[j]

\* String.prototype.toLowerCase, word by word
LowerWord(w) ==
  CASE w = "Gemini"   -> "gemini"
    [] w = "OpenAI"   -> "openai"
    [] w = "API"      -> "api"
    [] w = "The"      -> "the"
    [] w = "Please"   -> "please"
    [] w = "Failed"   -> "failed"
    [] w = "Unsupported" -> "unsupported"
    [] w = "Positive" -> "positive"
    [] w = "Negative" -> "negative"
    [] w = "Neutral"  -> "neutral"
    [] w = "POSITIVE" -> "positive"
    [] w = "Mixed"    -> "mixed"
    [] OTHER          -> w
toLowerCase(s) == [j \in 1..Len(s) |-> LowerWord(s[j])]

\* ------------------------------------------------------------- enumerations
Variants == {"App.tsx", "part_002", "part_001"}
Providers == {"gemini", "openai"}

AgentStatus == [Pending |-> "pending", Running |-> "running",
                Success |-> "success", Error |-> "error"]
DocumentType == [PDF |-> "pdf", TXT |-> "txt", EMPTY |-> "empty"]

\* a model identifier "provider/model-name" is the sequence of its '/'-separated
\* segments, so that split('/')[0] is its first segment
MODEL_OPTIONS == << <<"gemini", "gemini-2.5-flash">>,
                    <<"openai", "gpt-4o-mini">>,
                    <<"openai", "gpt-4.1-mini">> >>

\* the agent templates offered by the "add agent" panel (DEFAULT_AGENTS of the
\* constants module): a name and a prompt each
SentimentTemplate == [name |-> "Sentiment Analyzer", prompt |-> <<"Classify", "sentiment">>]
EntityTemplate    == [name |-> "Entity Extractor", prompt |-> <<"List", "entities">>]
DEFAULT_AGENTS    == { SentimentTemplate, EntityTemplate }
\* a template that names its own model
TemplateWithModel == [name |-> "Summarizer", prompt |-> <<"Summarize">>,
                      model |-> MODEL_OPTIONS[2]]

\* values a user can type into a prompt box, pick as a model, or type as a key
PromptInputs == { <<"Summarize">> }
Mistral      == <<"mistral", "large">>
ModelInputs  == { MODEL_OPTIONS[k] : k \in 1..Len(MODEL_OPTIONS) } \cup { Mistral }
KeyInputs    == { "", " ", "user-key" }
EnvKeys      == { "", "env-key" }

\* ------------------------------------------------------------------ messages
GeminiNotConfigured == <<"Gemini", "API", "key", "is", "not", "configured.">>
GeminiKeyNotValid   == <<"The", "provided", "Gemini", "API", "key", "is", "not", "valid.",
                         "Please", "check", "it.">>
GeminiFailed        == <<"Failed", "to", "get", "response", "from", "Gemini", "API.">>
OpenAINotConfigured == <<"OpenAI", "API", "key", "is", "not", "configured.">>
OpenAIKeyNotValid   == <<"The", "provided", "OpenAI", "API", "key", "is", "not", "valid.",
                         "Please", "check", "it.">>
OpenAIFailed        == <<"Failed", "to", "get", "response", "from", "OpenAI", "API.">>
UnsupportedProvider(provider) == <<"Unsupported", "provider:", provider>>
\* part_001 (one provider)
P1NotConfigured     == <<"Gemini", "API", "key", "is", "not", "configured.",
                         "Please", "set", "it", "first.">>
P1KeyNotValid       == <<"The", "provided", "API", "key", "is", "not", "valid.",
                         "Please", "check", "it", "and", "try", "again.">>
\* refusals of runWorkflow and processPdf
GeminiRequired      == <<"A", "Gemini", "API", "key", "is", "required", "for", "this", "workflow.">>
OpenAIRequired      == <<"An", "OpenAI", "API", "key", "is", "required", "for", "this", "workflow.">>
GeminiRequiredOcr   == <<"A", "Gemini", "API", "key", "is", "required", "for", "PDF",
                         "processing", "(OCR).">>
P1SetKeyRun         == <<"Please", "set", "your", "API", "key", "before", "running", "the", "workflow.">>
P1SetKeyPdf         == <<"Please", "set", "your", "API", "key", "before", "processing", "a", "PDF.">>
LoadDocumentFirst   == <<"Please", "load", "a", "document", "first.">>
ProcessingPdf       == <<"Processing", "PDF...">>

\* ------------------------------------------------------------------- gateway
\* what the provider's SDK call does: it returns text or throws
\*   "keyNotValid"  an error whose message includes 'API key not valid'
\*   "http403"      an error whose message includes '403'
\*   "http401"      an OpenAI.APIError with status 401
\*   "other"        any other error (network, rate limit, malformed response)
ProviderErrors == {"keyNotValid", "http403", "http401", "other"}

\* the error thrown by the gateway before any provider round trip, or Null:
\* the handle check and the unsupported-provider fall-through
ImmediateError(v, model, handles) ==
  IF v = "part_001"
  THEN IF handles["gemini"] = "" THEN Str(P1NotConfigured) ELSE Null
  ELSE LET provider == IF model = <<>> THEN "" ELSE Head(model) IN
       CASE provider = "gemini" ->
              IF handles["gemini"] = "" THEN Str(GeminiNotConfigured) ELSE Null
         [] provider = "openai" ->
              IF handles["openai"] = "" THEN Str(OpenAINotConfigured) ELSE Null
         [] OTHER -> Str(UnsupportedProvider(provider))

\* the message of the Error the gateway throws when the provider's call threw e
GatewayError(v, model, e) ==
  IF v = "part_001"
  THEN IF e = "keyNotValid" THEN P1KeyNotValid ELSE GeminiFailed
  ELSE IF Head(model) = "gemini"
       THEN IF e \in {"keyNotValid", "http403"} THEN GeminiKeyNotValid ELSE GeminiFailed
       ELSE IF e = "http401" THEN OpenAIKeyNotValid ELSE OpenAIFailed

\* the prompt text sent to the provider
fullPrompt(documentContent, prompt) ==
  <<"DOCUMENT CONTENT:\n---\n">> \o documentContent \o <<"\n---\n\nTASK:\n">> \o prompt


\* ----------------------------------------------------------------- extractor
\* Provider text is a sequence of tokens: the fence markers, JSON punctuation,
\* JSON scalars and prose words.
\* (a TLA+ string cannot hold a backquote: ''' stands for the three backquotes)
FenceOpen  == "'''json\n"
FenceClose == "\n'''"
StringWords == {"sentiment", "name", "type", "Positive", "negative", "Mixed", "Acme", "ORG"}
Quote(w)   == "\"" \o w \o "\""
NumberToks == {"0", "1"}
NumberOf(tok) == IF tok = "0" THEN 0 ELSE 1
IsStringTok(tok) == \E w \in StringWords : tok = Quote(w)
Unquote(tok) == CHOOSE w \in StringWords : tok = Quote(w)

SubText(text, from, to) == [j \in 1..(to - from + 1) |-> text[from + j - 1]]

\* JSON.parse: a recursive-descent parse of a token sequence; the result is
\* [ok, v, next] with next the position after the parsed value
RECURSIVE ParseValue(_, _), ParseElements(_, _, _), ParseMembers(_, _, _)
ParseFail == [ok |-> FALSE, v |-> Null, next |-> 0]
ParseValue(text, p) ==
  IF p > Len(text) THEN ParseFail
  ELSE LET tok == text[p] IN
       CASE tok = "["         -> IF p + 1 <= Len(text) /\ text[p + 1] = "]"
                                 THEN [ok |-> TRUE, v |-> Arr(<<>>), next |-> p + 2]
                                 ELSE ParseElements(text, p + 1, <<>>)
         [] tok = "{"         -> IF p + 1 <= Len(text) /\ text[p + 1] = "}"
                                 THEN [ok |-> TRUE, v |-> Obj(<<>>), next |-> p + 2]
                                 ELSE ParseMembers(text, p + 1, <<>>)
         [] tok = "null"      -> [ok |-> TRUE, v |-> Null, next |-> p + 1]
         [] tok \in NumberToks -> [ok |-> TRUE, v |-> Num(NumberOf(tok)), next |-> p + 1]
         [] IsStringTok(tok)  -> [ok |-> TRUE, v |-> Str(<<Unquote(tok)>>), next |-> p + 1]
         [] OTHER             -> ParseFail
ParseElements(text, p, acc) ==
  LET r == ParseValue(text, p) IN
  IF ~r.ok \/ r.next > Len(text) THEN ParseFail
  ELSE CASE text[r.next] = "," -> ParseElements(text, r.next + 1, Append(acc, r.v))
         [] text[r.next] = "]" -> [ok |-> TRUE, v |-> Arr(Append(acc, r.v)), next |-> r.next + 1]
         [] OTHER              -> ParseFail
\* an object is a function from its keys to their values (a later duplicate wins)
ParseMembers(text, p, acc) ==
  IF p + 1 > Len(text) \/ ~IsStringTok(text[p]) \/ text[p + 1] # ":" THEN ParseFail
  ELSE LET r   == ParseValue(text, p + 2)
           key == Unquote(text[p])
           obj == (key :> r.v) @@ acc
       IN IF ~r.ok \/ r.next > Len(text) THEN ParseFail
          ELSE CASE text[r.next] = "," -> ParseMembers(text, r.next + 1, obj)
                 [] text[r.next] = "}" -> [ok |-> TRUE, v |-> Obj(obj), next |-> r.next + 1]
                 [] OTHER              -> ParseFail

\* JSON.parse(text): the value, or a thrown SyntaxError (ok = FALSE)
JSONparse(text) ==
  LET r == ParseValue(text, 1) IN
  IF r.ok /\ r.next = Len(text) + 1 THEN [ok |-> TRUE, v |-> r.v] ELSE [ok |-> FALSE, v |-> Null]

\* the match of the fenced-block pattern starting at position k: the lazy
\* group ends at the first closing fence after k
FenceAt(text, k) ==
  /\ text[k] = FenceOpen
  /\ \E j \in (k + 1)..Len(text) : text[j] = FenceClose
FenceInterior(text, k) ==
  LET j == CHOOSE j \in (k + 1)..Len(text) :
             /\ text[j] = FenceClose
             /\ \A m \in (k + 1)..(j - 1) : text[m] # FenceClose
  IN SubText(text, k + 1, j - 1)
\* the match of ({[\s\S]*}) or (\[[\s\S]*\]) starting at k: greedy, to the last closer
LiteralAt(text, k, open, close) ==
  /\ text[k] = open
  /\ \E j \in (k + 1)..Len(text) : text[j] = close
GreedyLiteral(text, k, close) ==
  LET j == CHOOSE j \in (k + 1)..Len(text) :
             /\ text[j] = close
             /\ \A m \in (j + 1)..Len(text) : text[m] # close
  IN SubText(text, k, j)

\* an extractor that parses the whole text and never looks for a fenced block
tryParseWhole(text) == JSONparse(text)

\* parseJsonOutput of src/App.tsx and part_002: the fenced block, else the whole
\* text; the try block gives [ok, v], the function the value or null
tryParseApp(text) ==
  LET starts == {k \in 1..Len(text) : FenceAt(text, k)}
      cand   == IF starts = {} THEN text
                ELSE FenceInterior(text, CHOOSE k \in starts : \A m \in starts : k <= m)
  IN JSONparse(cand)
parseJsonOutputApp(text) ==
  LET r == tryParseApp(text) IN IF r.ok THEN r.v ELSE Null

\* parseJsonOutput of part_001: the leftmost match of fence | {...} | [...];
\* an empty fenced interior is falsy, so JSON.parse(undefined) throws
tryParseP1(text) ==
  LET starts == {k \in 1..Len(text) :
                   \/ FenceAt(text, k)
                   \/ LiteralAt(text, k, "{", "}")
                   \/ LiteralAt(text, k, "[", "]")}
      k0     == CHOOSE k \in starts : \A m \in starts : k <= m
      r      == IF starts = {} THEN JSONparse(text)
                ELSE IF FenceAt(text, k0)
                     THEN IF FenceInterior(text, k0) = <<>> THEN [ok |-> FALSE, v |-> Null]
                          ELSE JSONparse(FenceInterior(text, k0))
                     ELSE IF text[k0] = "{" THEN JSONparse(GreedyLiteral(text, k0, "}"))
                          ELSE JSONparse(GreedyLiteral(text, k0, "]"))
  IN r
parseJsonOutputP1(text) ==
  LET r == tryParseP1(text) IN IF r.ok THEN r.v ELSE Null

parseJsonOutput(v, text) ==
  IF v = "part_001" THEN parseJsonOutputP1(text) ELSE parseJsonOutputApp(text)

\* JSON.stringify of a value built from null, the numbers 0 and 1, one-word
\* strings, lists and objects: compact, members in the order of the keys
RECURSIVE JSONstringify(_), StringifyElements(_), StringifyMembers(_, _)
JSONstringify(v) ==
  CASE v.t = "null" -> <<"null">>
    [] v.t = "num"  -> <<IF v.n = 0 THEN "0" ELSE "1">>
    [] v.t = "str"  -> <<Quote(v.s[1])>>
    [] v.t = "arr"  -> <<"[">> \o StringifyElements(v.a) \o <<"]">>
    [] v.t = "obj"  -> <<"{">> \o StringifyMembers(v.o, DOMAIN v.o) \o <<"}">>
StringifyElements(a) ==
  IF a = <<>> THEN <<>>
  ELSE IF Len(a) = 1 THEN JSONstringify(a[1])
  ELSE JSONstringify(a[1]) \o <<",">> \o StringifyElements(Tail(a))
StringifyMembers(o, keys) ==
  IF keys = {} THEN <<>>
  ELSE LET k == CHOOSE k \in keys : TRUE
           m == <<Quote(k), ":">> \o JSONstringify(o[k])
       IN IF keys = {k} THEN m ELSE m \o <<",">> \o StringifyMembers(o, keys \ {k})
\* a text wrapped in a fenced code block tagged json
Fenced(text) == <<FenceOpen>> \o text \o <<FenceClose>>

\* JSON values of every kind, flat and nested
JsonValues ==
  { Null, Num(0), Str(<<"Acme">>), Arr(<<>>), Obj(<<>>),
    Arr(<<Num(1), Obj([name |-> Str(<<"Acme">>)]), Null>>),
    Obj([sentiment |-> Str(<<"Positive">>), type |-> Arr(<<Str(<<"ORG">>), Num(0)>>)]) }
RoundTrips     == { [v |-> v, text |-> Fenced(JSONstringify(v))] : v \in JsonValues }
RoundTripTexts == { rt.text : rt \in RoundTrips }

\* texts a provider returns in the model
ProseText     == <<"Looks", "fine.">>
SentimentText == <<FenceOpen, "{", Quote("sentiment"), ":", Quote("Positive"), "}", FenceClose>>
EntityText    == <<"Found:", "[", "{", Quote("name"), ":", Quote("Acme"), ",",
                   Quote("type"), ":", Quote("ORG"), "}", ",", "{", Quote("type"), ":",
                   Quote("ORG"), "}", "]">>
NullText      == <<FenceOpen, "null", FenceClose>>
ProviderTexts == {ProseText, SentimentText, EntityText, NullText}
\* texts for the Extractor: a literal before a fenced block, a fenced block
\* that does not parse beside a literal, a fenced block before a literal, two
\* literals in prose, a bare scalar
LiteralBeforeFence == <<"{", "}", "then", FenceOpen, "[", "]", FenceClose>>
FenceBadInterior   == <<FenceOpen, "oops", FenceClose, "[", "]">>
FenceThenLiteral   == <<FenceOpen, "{", "}", FenceClose, "and", "[", "]">>
TwoLiterals        == <<"{", "}", "and", "{", "}">>
ScalarText         == <<"1">>
ExtractTexts == {LiteralBeforeFence, FenceBadInterior, FenceThenLiteral,
                 EntityText, TwoLiterals, ProseText, ScalarText}
\* structured outputs for the aggregator: sentiment labels in several spellings,
\* a label that is not a string, entity lists with a complete entry, an entry
\* without a name, a null entry, and an empty list
MixedText       == <<FenceOpen, "{", Quote("sentiment"), ":", Quote("Mixed"), "}", FenceClose>>
NumberLabelText == <<FenceOpen, "{", Quote("sentiment"), ":", "1", "}", FenceClose>>
EntityListText  == <<FenceOpen, "[", "{", Quote("name"), ":", Quote("Acme"), ",",
                     Quote("type"), ":", Quote("ORG"), "}", ",", "{", Quote("type"), ":",
                     Quote("ORG"), "}", "]", FenceClose>>
NullEntryText   == <<FenceOpen, "[", "{", Quote("name"), ":", Quote("Acme"), ",",
                     Quote("type"), ":", Quote("ORG"), "}", ",", "null", "]", FenceClose>>
EmptyListText   == <<FenceOpen, "[", "]", FenceClose>>
AggregateTexts  == {SentimentText, MixedText, NumberLabelText,
                    EntityListText, NullEntryText, EmptyListText}


\* ---------------------------------------------------------------- aggregator
\* property access v.k of a non-null value: undefined unless v is an object with key k
GetProp(v, k) == IF v.t = "obj" /\ k \in DOMAIN v.o THEN v.o[k] ELSE Undef

\* a search that returns the last agent with that name and status Success, or 0
FindRoleLast(currentAgents, name) ==
  LET hits == {j \in 1..Len(currentAgents) :
                 /\ currentAgents[j].name = name
                 /\ currentAgents[j].status = AgentStatus.Success}
  IN IF hits = {} THEN 0 ELSE CHOOSE j \in hits : \A m \in hits : j >= m

\* Array.prototype.find: the first agent with that name and status Success, or 0
FindRole(currentAgents, name) ==
  LET hits == {j \in 1..Len(currentAgents) :
                 /\ currentAgents[j].name = name
                 /\ currentAgents[j].status = AgentStatus.Success}
  IN IF hits = {} THEN 0 ELSE CHOOSE j \in hits : \A m \in hits : j <= m

RECURSIVE FilterEntities(_)
FilterEntities(list) ==
  IF list = <<>> THEN <<>>
  ELSE LET e == Head(list) IN
       IF Truthy(GetProp(e, "name")) /\ Truthy(GetProp(e, "type"))
       THEN <<e>> \o FilterEntities(Tail(list))
       ELSE FilterEntities(Tail(list))

\* analyzeResults: [threw, found, result]; threw is the TypeError of calling
\* toLowerCase on a non-string or of reading a property of a null entry
analyzeResults(currentAgents) ==
  LET sIdx  == FindRole(currentAgents, "Sentiment Analyzer")
      eIdx  == FindRole(currentAgents, "Entity Extractor")
      sJson == IF sIdx = 0 THEN Null ELSE currentAgents[sIdx].outputJson
      eJson == IF eIdx = 0 THEN Null ELSE currentAgents[eIdx].outputJson
      label == IF sJson.t = "null" THEN Undef ELSE GetProp(sJson, "sentiment")
      sThrows == Truthy(label) /\ label.t # "str"
      s     == IF Truthy(label) /\ label.t = "str" THEN toLowerCase(label.s) ELSE <<>>
      sentiment ==
        IF ~Truthy(label) THEN Null
        ELSE IF s = <<"positive">> THEN Obj([positive |-> 1, negative |-> 0, neutral |-> 0])
        ELSE IF s = <<"negative">> THEN Obj([positive |-> 0, negative |-> 1, neutral |-> 0])
        ELSE Obj([positive |-> 0, negative |-> 0, neutral |-> 1])
      isList  == eJson.t = "arr"
      eThrows == isList /\ \E j \in 1..Len(eJson.a) : eJson.a[j].t = "null"
      entities == IF isList /\ ~eThrows THEN Arr(FilterEntities(eJson.a)) ELSE Null
      found == Truthy(sentiment) \/ (entities.t = "arr" /\ Len(entities.a) > 0)
  IN [threw  |-> sThrows \/ (~sThrows /\ eThrows),
      found  |-> ~sThrows /\ ~eThrows /\ found,
      result |-> [sentiment |-> sentiment, entities |-> entities]]

\* ===================================================================== state
VARIABLES
  variant,            \* which revision of the App component runs
  envKey,             \* envGeminiApiKey / envOpenAIApiKey (process.env), by provider
  userKey,            \* userGeminiApiKey / userOpenAIApiKey (localStorage), by provider
  handles,            \* the module-level SDK clients geminiAI / openai: the key each
                      \* was built with, "" for null
  documentFile,       \* [type, content]
  agents,             \* the registry: the agents state of the component
  now,                \* the last reading of Date.now()
  isProcessing,
  isOcrProcessing,
  analysisResult,     \* Null or [sentiment, entities]
  activeTab,
  apiKeyError,
  isApiKeyModalOpen,
  alerts,             \* messages shown with alert()
  runs,               \* the run table: the invocations of runWorkflow in flight
  loads               \* file loads awaiting file.text() or the PDF pipeline

vars == <<variant, envKey, userKey, handles, documentFile, agents, now, isProcessing,
          isOcrProcessing, analysisResult, activeTab, apiKeyError, isApiKeyModalOpen,
          alerts, runs, loads>>

\* effectiveGeminiApiKey / effectiveOpenAIApiKey and isGeminiKeySet / isOpenAIKeySet
effectiveKey(env, user, p) == IF env[p] # "" THEN env[p] ELSE user[p]
isKeySet(p) == effectiveKey(envKey, userKey, p) # ""

\* the key effect: a service is (re)initialised only with a non-empty key
KeyEffect(v, hs, env, user) ==
  [p \in Providers |->
     IF (v = "part_001" /\ p # "gemini") \/ effectiveKey(env, user, p) = ""
     THEN hs[p] ELSE effectiveKey(env, user, p)]

\* part_001's effect also clears apiKeyError while a key is set
ErrorEffect(v, env, user, err) ==
  IF v = "part_001" /\ effectiveKey(env, user, "gemini") # "" THEN <<>> ELSE err


\* --------------------------------------------------------------- run helpers
\* a reset that forgets the error field
resetAllKeepsError(list) ==
  [j \in 1..Len(list) |->
     [list[j] EXCEPT !.status = AgentStatus.Pending, !.output = Null,
                     !.outputJson = Null]]

\* agents.map(a => ({...a, status: Pending, output: null, error: null, outputJson: null}))
resetAll(list) ==
  [j \in 1..Len(list) |->
     [list[j] EXCEPT !.status = AgentStatus.Pending, !.output = Null,
                     !.error = Null, !.outputJson = Null]]

\* currentAgents.map(a => (a.id === agent.id ? {...a, ...} : a))
MarkRunning(list, id) ==
  [j \in 1..Len(list) |->
     IF list[j].id = id THEN [list[j] EXCEPT !.status = AgentStatus.Running] ELSE list[j]]
MarkSuccess(list, id, output, outputJson) ==
  [j \in 1..Len(list) |->
     IF list[j].id = id
     THEN [list[j] EXCEPT !.status = AgentStatus.Success, !.output = output,
                          !.outputJson = outputJson]
     ELSE list[j]]
MarkError(list, id, errorMessage) ==
  [j \in 1..Len(list) |->
     IF list[j].id = id
     THEN [list[j] EXCEPT !.status = AgentStatus.Error, !.error = Str(errorMessage)]
     ELSE list[j]]

\* a catch block that drops every stored key on an 'API key' message
OnErrorClearsAll(v, errorMessage, w) ==
  IF ~Includes(errorMessage, <<"API", "key">>) THEN w
  ELSE [w EXCEPT !.apiKeyError = errorMessage,
                 !.isApiKeyModalOpen = (v # "part_001" \/ @),
                 !.userKey = [p \in Providers |-> ""]]

\* the catch block's side effects on the component state w
\* (w = [userKey, apiKeyError, isApiKeyModalOpen, analysisResult, activeTab, isProcessing])
OnError(v, errorMessage, w) ==
  IF ~Includes(errorMessage, <<"API", "key">>) THEN w
  ELSE IF v = "part_001"
       THEN [w EXCEPT !.apiKeyError = errorMessage, !.userKey["gemini"] = ""]
       ELSE [w EXCEPT !.apiKeyError = errorMessage,
                      !.isApiKeyModalOpen = TRUE,
                      !.userKey = [p \in Providers |->
                                     IF Includes(toLowerCase(errorMessage), <<p>>)
                                     THEN "" ELSE w.userKey[p]]]

\* a slot of the run table that holds no run in flight
IdleRun == [pc |-> "idle", agents |-> <<>>, content |-> <<>>, currentAgents |-> <<>>,
            i |-> 0, calls |-> <<>>, request |-> Null]

\* The outcome of a stretch of a run is [run, w, list]: the run's slot, the
\* component state and the list last passed to setAgents.
\* The code after the loop: the aggregator (absent from src/App.tsx), then
\* setIsProcessing(false); a throw of the aggregator leaves the flag set.
Finish(v, run, w) ==
  IF v = "App.tsx"
  THEN [run |-> IdleRun, w |-> [w EXCEPT !.isProcessing = FALSE], list |-> run.currentAgents]
  ELSE LET r == analyzeResults(run.currentAgents) IN
       IF r.threw
       THEN [run |-> IdleRun, w |-> w, list |-> run.currentAgents]
       ELSE [run  |-> IdleRun,
             w    |-> IF r.found
                      THEN [w EXCEPT !.isProcessing = FALSE, !.analysisResult = r.result,
                                     !.activeTab = "dashboard"]
                      ELSE [w EXCEPT !.isProcessing = FALSE],
             list |-> run.currentAgents]

\* a loop that hands each agent the output of the agent before it
AdvanceChained(v, hs, run, w, k) ==
  IF k > Len(run.agents) THEN Finish(v, run, w)
  ELSE LET agent == run.agents[k]
           cur1  == MarkRunning(run.currentAgents, agent.id)
           ie    == ImmediateError(v, agent.model, hs)
           run1  == [run EXCEPT !.i = k, !.calls = Append(@, k)]
           prev  == IF k > 1 /\ run.currentAgents[k - 1].output # Null
                    THEN run.currentAgents[k - 1].output.s ELSE <<>>
       IN IF ie = Null
          THEN [run  |-> [run1 EXCEPT !.pc = "awaiting", !.currentAgents = cur1,
                                      !.request = [model  |-> agent.model,
                                                   prompt |-> fullPrompt(run.content \o prev, agent.prompt),
                                                   key    |-> IF v = "part_001" THEN hs["gemini"]
                                                              ELSE hs[Head(agent.model)]]],
                w    |-> w,
                list |-> cur1]
          ELSE Finish(v, [run1 EXCEPT !.currentAgents = MarkError(cur1, agent.id, ie.s)],
                      OnError(v, ie.s, w))

\* a loop that reads the registry and the document as they are when the call
\* is made
AdvanceLive(v, hs, run, w, k) ==
  IF k > Len(run.agents) THEN Finish(v, run, w)
  ELSE LET agent == IF k <= Len(agents) THEN agents[k] ELSE run.agents[k]
           cur1  == MarkRunning(run.currentAgents, agent.id)
           ie    == ImmediateError(v, agent.model, hs)
           run1  == [run EXCEPT !.i = k, !.calls = Append(@, k)]
       IN IF ie = Null
          THEN [run  |-> [run1 EXCEPT !.pc = "awaiting", !.currentAgents = cur1,
                                      !.request = [model  |-> agent.model,
                                                   prompt |-> fullPrompt(documentFile.content, agent.prompt),
                                                   key    |-> IF v = "part_001" THEN hs["gemini"]
                                                              ELSE hs[Head(agent.model)]]],
                w    |-> w,
                list |-> cur1]
          ELSE Finish(v, [run1 EXCEPT !.currentAgents = MarkError(cur1, agent.id, ie.s)],
                      OnError(v, ie.s, w))

\* one turn of the loop for the agent at index k of the captured list: mark it
\* Running and call the gateway; a failure before the round trip is caught at
\* once; past the last agent the loop is over
Advance(v, hs, run, w, k) ==
  IF k > Len(run.agents) THEN Finish(v, run, w)
  ELSE LET agent == run.agents[k]
           cur1  == MarkRunning(run.currentAgents, agent.id)
           ie    == ImmediateError(v, agent.model, hs)
           run1  == [run EXCEPT !.i = k, !.calls = Append(@, k)]
       IN IF ie = Null
          THEN [run  |-> [run1 EXCEPT !.pc = "awaiting", !.currentAgents = cur1,
                                      !.request = [model  |-> agent.model,
                                                   prompt |-> fullPrompt(run.content, agent.prompt),
                                                   key    |-> IF v = "part_001" THEN hs["gemini"]
                                                              ELSE hs[Head(agent.model)]]],
                w    |-> w,
                list |-> cur1]
          ELSE Finish(v, [run1 EXCEPT !.currentAgents = MarkError(cur1, agent.id, ie.s)],
                      OnError(v, ie.s, w))

\* a loop that stays on the agent whose call has just returned
OnTextRetry(v, hs, run, w, text) ==
  LET agent == run.agents[run.i]
      cur1  == MarkSuccess(run.currentAgents, agent.id, Str(text), parseJsonOutput(v, text))
  IN Advance(v, hs, [run EXCEPT !.currentAgents = cur1], w, run.i)

\* the resumption of the await: the provider returned text ...
OnText(v, hs, run, w, text) ==
  LET agent == run.agents[run.i]
      cur1  == MarkSuccess(run.currentAgents, agent.id, Str(text), parseJsonOutput(v, text))
  IN Advance(v, hs, [run EXCEPT !.currentAgents = cur1], w, run.i + 1)
\* ... or its call threw e
OnThrow(v, run, w, e) ==
  LET agent == run.agents[run.i]
      msg   == GatewayError(v, agent.model, e)
  IN Finish(v, [run EXCEPT !.currentAgents = MarkError(run.currentAgents, agent.id, msg)],
            OnError(v, msg, w))

World == [userKey |-> userKey, apiKeyError |-> apiKeyError,
          isApiKeyModalOpen |-> isApiKeyModalOpen, analysisResult |-> analysisResult,
          activeTab |-> activeTab, isProcessing |-> isProcessing]

\* commit the outcome of a stretch of the run in slot r
Commit(r, res) ==
  /\ runs' = [runs EXCEPT ![r] = res.run]
  /\ agents' = res.list
  /\ userKey' = res.w.userKey
  /\ handles' = KeyEffect(variant, handles, envKey, res.w.userKey)
  /\ apiKeyError' = ErrorEffect(variant, envKey, res.w.userKey, res.w.apiKeyError)
  /\ isApiKeyModalOpen' = res.w.isApiKeyModalOpen
  /\ analysisResult' = res.w.analysisResult
  /\ activeTab' = res.w.activeTab
  /\ isProcessing' = res.w.isProcessing

\* ====================================================================== Boot
\* the state after the component of a revision in vs has mounted, with the
\* environment keys drawn from envs and a run table of the given number of
\* slots; part_001 reads one environment key only
Mount(vs, envs, slots) ==
  /\ variant \in vs
  /\ envKey \in envs
  /\ variant = "part_001" => envKey["openai"] = ""
  /\ userKey = [p \in Providers |-> ""]
  /\ handles = KeyEffect(variant, [p \in Providers |-> ""], envKey, userKey)
  /\ documentFile = [type |-> DocumentType.EMPTY, content |-> <<>>]
  /\ agents = <<>>
  /\ now = 0
  /\ isProcessing = FALSE
  /\ isOcrProcessing = FALSE
  /\ analysisResult = Null
  /\ activeTab = "workflow"
  /\ apiKeyError = <<>>
  /\ isApiKeyModalOpen = FALSE
  /\ alerts = {}
  /\ runs = [r \in 1..slots |-> IdleRun]
  /\ loads = <<>>

Boot(vs, envs) == Mount(vs, envs, MaxRuns)

\* ================================================================== registry
\* addAgent(template): dt is the time that passed since the last reading of the clock
addAgent(template, dt) ==
  /\ Len(agents) < MaxAgents
  /\ now + dt <= MaxClock
  /\ now' = now + dt
  /\ agents' = Append(agents,
       [id |-> now', name |-> template.name, prompt |-> template.prompt,
        model |-> IF variant = "part_001"
                  THEN IF "model" \in DOMAIN template THEN template.model ELSE <<>>
                  ELSE MODEL_OPTIONS[1],
        status |-> AgentStatus.Pending,
        output |-> Null, error |-> Null, outputJson |-> Null])
  /\ UNCHANGED <<variant, envKey, userKey, handles, documentFile, isProcessing,
                 isOcrProcessing, analysisResult, activeTab, apiKeyError,
                 isApiKeyModalOpen, alerts, runs, loads>>

\* handleAgentChange(id, field, value); part_001 has handlePromptChange(id, prompt) only
handleAgentChange(id, field, value) ==
  /\ field = "model" => variant # "part_001"
  /\ agents' = [j \in 1..Len(agents) |->
                  IF agents[j].id = id
                  THEN IF field = "prompt" THEN [agents[j] EXCEPT !.prompt = value]
                                           ELSE [agents[j] EXCEPT !.model = value]
                  ELSE agents[j]]
  /\ agents' # agents
  /\ UNCHANGED <<variant, envKey, userKey, handles, documentFile, now, isProcessing,
                 isOcrProcessing, analysisResult, activeTab, apiKeyError,
                 isApiKeyModalOpen, alerts, runs, loads>>

\* handleDeleteAgent(id): prev.filter(agent => agent.id !== id)
handleDeleteAgent(id) ==
  /\ agents' = SelectSeq(agents, LAMBDA a : a.id # id)
  /\ agents' # agents
  /\ UNCHANGED <<variant, envKey, userKey, handles, documentFile, now, isProcessing,
                 isOcrProcessing, analysisResult, activeTab, apiKeyError,
                 isApiKeyModalOpen, alerts, runs, loads>>

\* ================================================================ credentials
\* the key button of the header opens the modal (src/App.tsx, part_002)
openApiKeyModal ==
  /\ variant # "part_001"
  /\ ~isApiKeyModalOpen
  /\ isApiKeyModalOpen' = TRUE
  /\ UNCHANGED <<variant, envKey, userKey, handles, documentFile, agents, now,
                 isProcessing, isOcrProcessing, analysisResult, activeTab, apiKeyError,
                 alerts, runs, loads>>

\* String.prototype.trim on the keys a user can type
trim(key) == IF key = " " THEN "" ELSE key

\* handleSaveApiKeys with the typed values tempGeminiKey / tempOpenAIKey; an input
\* is rendered only for a provider without an environment key.  In part_001 the
\* modal shows while no key is set and its button saves a non-empty key.
handleSaveApiKeys(temp) ==
  /\ \A p \in Providers : envKey[p] # "" => temp[p] = ""
  /\ IF variant = "part_001"
     THEN /\ ~isKeySet("gemini")
          /\ trim(temp["gemini"]) # "" /\ temp["openai"] = ""
          /\ UNCHANGED isApiKeyModalOpen
     ELSE /\ isApiKeyModalOpen
          /\ isApiKeyModalOpen' = FALSE
  /\ userKey' = [p \in Providers |-> IF temp[p] # "" THEN trim(temp[p]) ELSE userKey[p]]
  /\ handles' = KeyEffect(variant, handles, envKey, userKey')
  /\ apiKeyError' = <<>>
  /\ UNCHANGED <<variant, envKey, documentFile, agents, now, isProcessing,
                 isOcrProcessing, analysisResult, activeTab, alerts, runs, loads>>


\* ================================================================== workflow
\* the Run button: disabled={isProcessing || agents.length === 0}, in part_001
\* also while the document is of type EMPTY
RunButtonEnabled ==
  /\ ~isProcessing
  /\ agents # <<>>
  /\ variant = "part_001" => documentFile.type # DocumentType.EMPTY

\* a precondition that looks at the first agent only
requiredProvidersOfFirst ==
  IF agents = <<>> \/ agents[1].model = <<>> THEN {} ELSE {Head(agents[1].model)}

\* new Set(agents.map(a => a.model.split('/')[0]))
requiredProviders == {IF agents[j].model = <<>> THEN "" ELSE Head(agents[j].model) :
                        j \in 1..Len(agents)}

\* the precondition that refuses the run, or "none"
Refusal ==
  IF variant = "part_001"
  THEN IF ~isKeySet("gemini") THEN "key"
       ELSE IF documentFile.content = <<>> \/ documentFile.type = DocumentType.EMPTY
            THEN "document" ELSE "none"
  ELSE IF "gemini" \in requiredProviders /\ ~isKeySet("gemini") THEN "gemini"
       ELSE IF "openai" \in requiredProviders /\ ~isKeySet("openai") THEN "openai"
            ELSE "none"

\* runWorkflow, refused: setApiKeyError(...) and the modal, or alert(...)
runRefused ==
  /\ RunButtonEnabled
  /\ Refusal # "none"
  /\ apiKeyError' =
       ErrorEffect(variant, envKey, userKey,
         CASE Refusal = "gemini"   -> GeminiRequired
           [] Refusal = "openai"   -> OpenAIRequired
           [] Refusal = "key"      -> P1SetKeyRun
           [] Refusal = "document" -> apiKeyError)
  /\ isApiKeyModalOpen' = (isApiKeyModalOpen \/ Refusal \in {"gemini", "openai"})
  /\ alerts' = IF Refusal = "document" THEN alerts \cup {LoadDocumentFirst} ELSE alerts
  /\ UNCHANGED <<variant, envKey, userKey, handles, documentFile, agents, now,
                 isProcessing, isOcrProcessing, analysisResult, activeTab, runs, loads>>

\* runWorkflow past its preconditions: the reset, then the loop up to its first
\* await, over the agents and the document content of the render that was clicked
StartOutcome ==
  Advance(variant, handles,
          [IdleRun EXCEPT !.pc = "start", !.agents = agents,
                          !.content = documentFile.content,
                          !.currentAgents = resetAll(agents)],
          [World EXCEPT !.isProcessing = TRUE, !.analysisResult = Null], 1)

\* runWorkflow, started; the run takes the first free slot of the run table
runStarted ==
  /\ RunButtonEnabled
  /\ Refusal = "none"
  /\ \E r \in DOMAIN runs :
       /\ runs[r].pc = "idle"
       /\ \A q \in 1..(r - 1) : runs[q].pc # "idle"
       /\ Commit(r, StartOutcome)
  /\ UNCHANGED <<variant, envKey, documentFile, now, isOcrProcessing, alerts, loads>>

runWorkflow == runRefused \/ runStarted

\* the provider's call of run r returns text: the loop goes on to its next await
providerReturns(r, text) ==
  /\ runs[r].pc = "awaiting"
  /\ Commit(r, OnText(variant, handles, runs[r], World, text))
  /\ UNCHANGED <<variant, envKey, documentFile, now, isOcrProcessing, alerts, loads>>

\* the provider's call of run r throws e: the catch block, then the loop's end
providerThrows(r, e) ==
  /\ runs[r].pc = "awaiting"
  /\ Commit(r, OnThrow(variant, runs[r], World, e))
  /\ UNCHANGED <<variant, envKey, documentFile, now, isOcrProcessing, alerts, loads>>


\* ================================================================= documents
\* the files a user picks: text files (one of them empty) and PDFs
Files == { [type |-> "text/plain", content |-> <<"Quarterly", "report">>, numPages |-> 0],
           [type |-> "text/plain", content |-> <<>>, numPages |-> 0] }
         \cup { [type |-> "application/pdf", content |-> <<>>, numPages |-> n] :
                  n \in 1..MaxPages }
OcrTexts == { <<"Scanned", "page">> }
OcrFailed == <<"Failed", "to", "perform", "OCR", "with", "Gemini", "API.">>
OcrNotConfigured(v) ==
  IF v = "part_001" THEN P1NotConfigured
  ELSE <<"Gemini", "API", "key", "is", "not", "configured", "for", "OCR.">>
OcrError(v, e) ==
  IF e = "keyNotValid" \/ (v # "part_001" /\ e = "http403")
  THEN IF v = "part_001" THEN P1KeyNotValid ELSE GeminiKeyNotValid
  ELSE OcrFailed
PageHeader(n) == IF n = 1 THEN "--- Page 1 ---\n" ELSE "--- Page 2 ---\n"

\* pageTexts.join('\n\n')
RECURSIVE Join(_)
Join(pageTexts) ==
  IF pageTexts = <<>> THEN <<>>
  ELSE IF Len(pageTexts) = 1 THEN Head(pageTexts)
       ELSE Head(pageTexts) \o <<"\n\n">> \o Join(Tail(pageTexts))

\* handleFileChange up to its first await: resetState(), then for a PDF the
\* placeholder document and processPdf (refused without a Gemini key; otherwise
\* the reader is started and the finally block clears the OCR flag at once)
handleFileChange(file) ==
  /\ Len(loads) < MaxLoads
  /\ agents' = <<>>
  /\ analysisResult' = Null
  /\ isProcessing' = FALSE
  /\ isOcrProcessing' = FALSE
  /\ IF file.type = "application/pdf"
     THEN /\ documentFile' = [type |-> DocumentType.PDF, content |-> ProcessingPdf]
          /\ IF isKeySet("gemini")
             THEN /\ loads' = Append(loads, [kind |-> "pdf", content |-> <<>>,
                                             numPages |-> file.numPages, page |-> 0,
                                             pageTexts |-> <<>>])
                  /\ UNCHANGED <<apiKeyError, isApiKeyModalOpen>>
             ELSE /\ apiKeyError' = IF variant = "part_001" THEN P1SetKeyPdf
                                    ELSE GeminiRequiredOcr
                  /\ isApiKeyModalOpen' = (variant # "part_001")
                  /\ UNCHANGED loads
     ELSE /\ loads' = Append(loads, [kind |-> "txt", content |-> file.content,
                                     numPages |-> 0, page |-> 0, pageTexts |-> <<>>])
          /\ UNCHANGED <<documentFile, apiKeyError, isApiKeyModalOpen>>
  /\ UNCHANGED <<variant, envKey, userKey, handles, now, activeTab, alerts, runs>>

RemoveAt(seq, k) == [j \in 1..(Len(seq) - 1) |-> IF j < k THEN seq[j] ELSE seq[j + 1]]

\* file.text() resolves: setDocumentFile({... type: TXT, content ...})
textRead(l) ==
  /\ l \in 1..Len(loads) /\ loads[l].kind = "txt"
  /\ documentFile' = [type |-> DocumentType.TXT, content |-> loads[l].content]
  /\ loads' = RemoveAt(loads, l)
  /\ UNCHANGED <<variant, envKey, userKey, handles, agents, now, isProcessing,
                 isOcrProcessing, analysisResult, activeTab, apiKeyError,
                 isApiKeyModalOpen, alerts, runs>>

\* the end of the page loop of the reader's onload callback
\* setDocumentFile(prev => ({ ...prev, content: pageTexts.join('\n\n') }))
PdfDone(l, pageTexts, w) ==
  /\ documentFile' = [documentFile EXCEPT !.content = Join(pageTexts)]
  /\ loads' = RemoveAt(loads, l)
  /\ userKey' = w.userKey
  /\ handles' = KeyEffect(variant, handles, envKey, w.userKey)
  /\ apiKeyError' = ErrorEffect(variant, envKey, w.userKey, w.apiKeyError)
  /\ isApiKeyModalOpen' = w.isApiKeyModalOpen

\* the catch block of the page loop
OnOcrError(v, errorMessage, w) ==
  IF ~Includes(errorMessage, <<"API", "key">>) THEN w
  ELSE [w EXCEPT !.apiKeyError = errorMessage, !.userKey["gemini"] = "",
                 !.isApiKeyModalOpen = (v # "part_001" \/ @)]
OcrFailedPage(n, errorMessage) ==
  <<PageHeader(n), "[OCR Failed: ">> \o errorMessage \o <<"]">>

\* the page loop reaches performOcr for page n of load l
PdfPage(l, n, pageTexts) ==
  IF handles["gemini"] = ""
  THEN LET msg == OcrNotConfigured(variant) IN
       PdfDone(l, Append(pageTexts, OcrFailedPage(n, msg)), OnOcrError(variant, msg, World))
  ELSE /\ loads' = [loads EXCEPT ![l].page = n, ![l].pageTexts = pageTexts]
       /\ UNCHANGED <<documentFile, userKey, handles, apiKeyError, isApiKeyModalOpen>>

\* the reader has loaded the file and rendered the first page
pdfOpened(l) ==
  /\ l \in 1..Len(loads) /\ loads[l].kind = "pdf" /\ loads[l].page = 0
  /\ PdfPage(l, 1, <<>>)
  /\ UNCHANGED <<variant, envKey, agents, now, isProcessing, isOcrProcessing,
                 analysisResult, activeTab, alerts, runs>>

\* performOcr returns the page's text
ocrReturns(l, ocrText) ==
  /\ l \in 1..Len(loads) /\ loads[l].kind = "pdf" /\ loads[l].page > 0
  /\ LET n == loads[l].page
         pageTexts == Append(loads[l].pageTexts, <<PageHeader(n)>> \o ocrText)
     IN IF n < loads[l].numPages THEN PdfPage(l, n + 1, pageTexts)
        ELSE PdfDone(l, pageTexts, World)
  /\ UNCHANGED <<variant, envKey, agents, now, isProcessing, isOcrProcessing,
                 analysisResult, activeTab, alerts, runs>>

\* performOcr throws: the failed page is recorded and the loop breaks
ocrThrows(l, e) ==
  /\ l \in 1..Len(loads) /\ loads[l].kind = "pdf" /\ loads[l].page > 0
  /\ LET msg == OcrError(variant, e) IN
     PdfDone(l, Append(loads[l].pageTexts, OcrFailedPage(loads[l].page, msg)),
             OnOcrError(variant, msg, World))
  /\ UNCHANGED <<variant, envKey, agents, now, isProcessing, isOcrProcessing,
                 analysisResult, activeTab, alerts, runs>>

\* ============================================================ specifications
TextFiles == { f \in Files : f.type = "text/plain" }
NoKeys == [p \in Providers |-> ""]

\* ---- the run loop and the registry: the Gemini key comes from the environment
\* ---- and the provider's failures are request failures; agents are added (also
\* ---- twice within one millisecond), re-targeted to a provider the gateway does
\* ---- not know, deleted, and run over the text files a user loads
Init == Boot(Variants, {[p \in Providers |-> IF p = "gemini" THEN "env-key" ELSE ""]})

Next ==
  \/ \E dt \in {0, 1} : addAgent(SentimentTemplate, dt)
  \/ \E j \in 1..Len(agents) : handleAgentChange(agents[j].id, "model", Mistral)
  \/ \E j \in 1..Len(agents) : handleDeleteAgent(agents[j].id)
  \/ runWorkflow
  \/ \E r \in 1..MaxRuns : providerReturns(r, SentimentText)
  \/ \E r \in 1..MaxRuns : providerThrows(r, "other")
  \/ \E file \in TextFiles : handleFileChange(file)
  \/ \E l \in 1..Len(loads) : textRead(l)

Spec == Init /\ [][Next]_vars

\* ---- credentials: every combination of environment keys, keys saved through
\* ---- the modal and invalidated by the provider, agents of both providers
\* ---- added in distinct milliseconds
InitKeys == Boot(Variants, [Providers -> EnvKeys])

NextKeys ==
  \/ addAgent(SentimentTemplate, 1)
  \/ \E j \in 1..Len(agents), value \in {MODEL_OPTIONS[1], MODEL_OPTIONS[2]} :
       handleAgentChange(agents[j].id, "model", value)
  \/ openApiKeyModal
  \/ \E temp \in [Providers -> KeyInputs] : handleSaveApiKeys(temp)
  \/ runWorkflow
  \/ \E r \in 1..MaxRuns : providerReturns(r, SentimentText)
  \/ \E r \in 1..MaxRuns, e \in ProviderErrors : providerThrows(r, e)
  \/ \E file \in {f \in TextFiles : f.content # <<>>} : handleFileChange(file)
  \/ \E l \in 1..Len(loads) : textRead(l)

SpecKeys == InitKeys /\ [][NextKeys]_vars

\* ---- racing runs: a document loaded while a run awaits its provider clears
\* ---- the processing flag, so a second run can be started beside the first
InitRace == Mount(Variants, {[p \in Providers |-> IF p = "gemini" THEN "env-key" ELSE ""]},
                  MaxRaceRuns)

NextRace ==
  \/ addAgent(SentimentTemplate, 1)
  \/ runWorkflow
  \/ \E r \in DOMAIN runs : providerReturns(r, SentimentText)
  \/ \E r \in DOMAIN runs : providerThrows(r, "other")
  \/ \E file \in TextFiles : handleFileChange(file)
  \/ \E l \in 1..Len(loads) : textRead(l)

SpecRace == InitRace /\ [][NextRace]_vars

\* the run loop over every provider text: both templates, ids distinct
InitTexts == Boot(Variants, {[p \in Providers |-> IF p = "gemini" THEN "env-key" ELSE ""]})
NextTexts ==
  \/ \E template \in DEFAULT_AGENTS : addAgent(template, 1)
  \/ runWorkflow
  \/ \E r \in DOMAIN runs, text \in ProviderTexts : providerReturns(r, text)
  \/ \E r \in DOMAIN runs : providerThrows(r, "other")
  \/ \E file \in TextFiles : handleFileChange(file)
  \/ \E l \in 1..Len(loads) : textRead(l)
SpecTexts == InitTexts /\ [][NextTexts]_vars

\* the registry alone: adds from every template, edits and removals
InitRegistry == Boot(Variants, {[p \in Providers |-> IF p = "gemini" THEN "env-key" ELSE ""]})
NextRegistry ==
  \/ \E template \in DEFAULT_AGENTS \cup {TemplateWithModel}, dt \in {0, 1} :
       addAgent(template, dt)
  \/ \E j \in 1..Len(agents), value \in PromptInputs :
       handleAgentChange(agents[j].id, "prompt", value)
  \/ \E j \in 1..Len(agents), value \in ModelInputs :
       handleAgentChange(agents[j].id, "model", value)
  \/ \E j \in 1..Len(agents) : handleDeleteAgent(agents[j].id)
SpecRegistry == InitRegistry /\ [][NextRegistry]_vars

\* the revisions with an aggregator, over the structured outputs it reads
InitAggregate == Boot({"part_002", "part_001"},
                      {[p \in Providers |-> IF p = "gemini" THEN "env-key" ELSE ""]})
NextAggregate ==
  \/ \E template \in DEFAULT_AGENTS : addAgent(template, 1)
  \/ runWorkflow
  \/ \E r \in DOMAIN runs, text \in AggregateTexts : providerReturns(r, text)
  \/ \E r \in DOMAIN runs : providerThrows(r, "other")
  \/ \E file \in TextFiles : handleFileChange(file)
  \/ \E l \in 1..Len(loads) : textRead(l)
SpecAggregate == InitAggregate /\ [][NextAggregate]_vars

\* the run loop over provider texts that are fenced serialisations of JSON values
InitRoundTrip == Boot(Variants, {[p \in Providers |-> IF p = "gemini" THEN "env-key" ELSE ""]})
NextRoundTrip ==
  \/ addAgent(SentimentTemplate, 1)
  \/ runWorkflow
  \/ \E r \in DOMAIN runs, text \in RoundTripTexts : providerReturns(r, text)
  \/ \E r \in DOMAIN runs : providerThrows(r, "other")
  \/ \E file \in TextFiles : handleFileChange(file)
  \/ \E l \in 1..Len(loads) : textRead(l)
SpecRoundTrip == InitRoundTrip /\ [][NextRoundTrip]_vars

\* the run loop over provider texts with fenced blocks, literals and prose
InitExtract == Boot(Variants, {[p \in Providers |-> IF p = "gemini" THEN "env-key" ELSE ""]})
NextExtract ==
  \/ addAgent(SentimentTemplate, 1)
  \/ runWorkflow
  \/ \E r \in DOMAIN runs, text \in ExtractTexts : providerReturns(r, text)
  \/ \E r \in DOMAIN runs : providerThrows(r, "other")
  \/ \E file \in TextFiles : handleFileChange(file)
  \/ \E l \in 1..Len(loads) : textRead(l)
SpecExtract == InitExtract /\ [][NextExtract]_vars

\* the run loop over a text that parses and one that does not, with adds
\* within the same millisecond
InitLoop == Boot(Variants, {[p \in Providers |-> IF p = "gemini" THEN "env-key" ELSE ""]})
NextLoop ==
  \/ \E dt \in {0, 1} : addAgent(SentimentTemplate, dt)
  \/ runWorkflow
  \/ \E r \in DOMAIN runs, text \in {ProseText, SentimentText} : providerReturns(r, text)
  \/ \E r \in DOMAIN runs : providerThrows(r, "other")
  \/ \E file \in TextFiles : handleFileChange(file)
  \/ \E l \in 1..Len(loads) : textRead(l)
SpecLoop == InitLoop /\ [][NextLoop]_vars

\* ---- PDF ingestion: text files and PDFs are loaded with and without a Gemini
\* ---- key in the environment, the OCR of a page returns or fails, and agents
\* ---- are added and run at any time
InitPdf == Boot(Variants, {[p \in Providers |-> IF p = "gemini" THEN k ELSE ""] :
                             k \in {"env-key", ""}})
NextPdf ==
  \/ addAgent(SentimentTemplate, 1)
  \/ runWorkflow
  \/ \E r \in 1..MaxRuns : providerReturns(r, SentimentText)
  \/ \E r \in 1..MaxRuns : providerThrows(r, "other")
  \/ \E file \in Files : handleFileChange(file)
  \/ \E l \in 1..Len(loads) : textRead(l)
  \/ \E l \in 1..Len(loads) : pdfOpened(l)
  \/ \E l \in 1..Len(loads), ocrText \in OcrTexts : ocrReturns(l, ocrText)
  \/ \E l \in 1..Len(loads), e \in {"other", "keyNotValid"} : ocrThrows(l, e)
SpecPdf == InitPdf /\ [][NextPdf]_vars

\* the run loop under the assumption that every call to a provider eventually
\* resolves or rejects; the provider returns a string label, a label that is
\* not a string, or a list with an entry that is not an object
TerminateTexts == {SentimentText, NumberLabelText, NullEntryText}
ProviderSettles ==
  \E r \in DOMAIN runs :
    \/ providerThrows(r, "other")
    \/ \E text \in TerminateTexts : providerReturns(r, text)
InitTerminate == Boot(Variants, {[p \in Providers |-> IF p = "gemini" THEN "env-key" ELSE ""]})
NextTerminate ==
  \/ \E template \in DEFAULT_AGENTS : addAgent(template, 1)
  \/ runWorkflow
  \/ ProviderSettles
  \/ \E file \in TextFiles : handleFileChange(file)
  \/ \E l \in 1..Len(loads) : textRead(l)
SpecTerminate == InitTerminate /\ [][NextTerminate]_vars /\ WF_vars(ProviderSettles)

\* ==================================================================== claims
\* a run ends in a step: its last await resumes, or the click that started it
\* ran to the end of the loop without reaching an await
LoopEnds(r) == runs[r].pc = "awaiting" /\ runs'[r].pc = "idle"
EndsAtStart == runStarted /\ StartOutcome.run.pc = "idle"
RunEnds == EndsAtStart \/ \E r \in DOMAIN runs : LoopEnds(r)
\* a step of the run in slot r that goes on to a further await
LoopGoesOn(r) == runs[r].pc = "awaiting" /\ runs'[r].pc = "awaiting" /\ runs'[r] # runs[r]
Untouched(a) ==
  a.status = AgentStatus.Pending /\ a.output = Null /\ a.error = Null /\ a.outputJson = Null
RunningAgents == {j \in 1..Len(agents) : agents[j].status = AgentStatus.Running}

\* C1: when a run ends with the agent at index k in Error, every agent at an
\* index greater than k is still Pending with output, error and outputJson absent
C1_FailFast ==
  [][RunEnds =>
       \A k \in 1..Len(agents') : \A j \in (k + 1)..Len(agents') :
         agents'[k].status = AgentStatus.Error => Untouched(agents'[j])]_vars

\* C2: within a run an agent that has reached Success keeps that status: after
\* every later step of the run's loop the agents whose calls had returned
\* before the step are still Success
C2_TerminalStatus ==
  [][\A r \in 1..MaxRuns :
       /\ LoopGoesOn(r) =>
            \A k \in 1..runs[r].i : agents'[k].status = AgentStatus.Success
       /\ LoopEnds(r) =>
            \A k \in 1..(runs[r].i - 1) : agents'[k].status = AgentStatus.Success]_vars

\* C3: in every reachable state at most one agent of the registry is Running
C3_OneRunning == Cardinality(RunningAgents) <= 1

\* C4: the gateway calls of a run in flight are the indices 1, 2, ..., i of the
\* captured list, each once and in this order, and every agent below the one
\* awaited carries the output of its Success in this run
C4_CallsArePrefix ==
  \A r \in 1..MaxRuns :
    runs[r].pc = "awaiting" =>
      /\ runs[r].calls = [k \in 1..runs[r].i |-> k]
      /\ runs[r].i \in 1..Len(runs[r].agents)
      /\ \A k \in 1..(runs[r].i - 1) : runs[r].currentAgents[k].output # Null
\* a run awaits the provider's answer for its second agent
C4_Witness ==
  \E r \in 1..MaxRuns :
    /\ runs[r].pc = "awaiting" /\ runs[r].i = 2
    /\ runs[r].agents[1].id # runs[r].agents[2].id
    /\ runs[r].currentAgents[1].status = AgentStatus.Success

\* the provider an agent's model names
ProviderOf(a) == IF variant = "part_001" THEN "gemini"
                 ELSE IF a.model = <<>> THEN "" ELSE Head(a.model)
MissingCredential ==
  \E j \in 1..Len(agents) :
    ProviderOf(agents[j]) \in Providers /\ ~isKeySet(ProviderOf(agents[j]))
Refused == agents' = agents /\ runs' = runs /\ isProcessing' = isProcessing
\* the messages of the gateway for a key the provider rejects
InvalidCredentialMessages == {GeminiKeyNotValid, OpenAIKeyNotValid, P1KeyNotValid}
\* the call awaited by the run in slot r fails with an invalid-credential error
InvalidCredentialFailure(r) ==
  /\ runs[r].pc = "awaiting"
  /\ \E e \in ProviderErrors :
       /\ GatewayError(variant, runs[r].agents[runs[r].i].model, e) \in InvalidCredentialMessages
       /\ providerThrows(r, e)

\* C5: a click on Run while some agent, at whatever index, names a provider
\* without a configured credential changes no agent, does not clear the
\* aggregated result and starts no gateway call
C5_RefusedBeforeMutation ==
  [][(runWorkflow /\ MissingCredential) =>
       (Refused /\ analysisResult' = analysisResult)]_vars
\* the run was refused for the second agent's provider while the first agent's
\* results and the aggregated result of the previous run are still in place
C5_Witness ==
  /\ Len(agents) = 2
  /\ ProviderOf(agents[1]) = "gemini" /\ ProviderOf(agents[2]) = "openai"
  /\ isKeySet("gemini") /\ ~isKeySet("openai")
  /\ apiKeyError = OpenAIRequired /\ isApiKeyModalOpen
  /\ agents[1].status = AgentStatus.Success
  /\ analysisResult # Null
  /\ \A r \in 1..MaxRuns : runs[r].pc = "idle"

\* C6: a click on Run while the document is of type EMPTY or has empty content
\* is refused with the "load a document" alert: no agent changes and no
\* gateway call is made
C6_EmptyDocumentRefused ==
  [][(runWorkflow /\ (documentFile.type = DocumentType.EMPTY \/ documentFile.content = <<>>))
       => (Refused /\ LoadDocumentFirst \in alerts')]_vars

\* C7: when the awaited call fails with an invalid-credential error of provider
\* P, the agent ends in Error with a message containing "API key", the loop
\* stops and P is no longer configured
C7_InvalidKeyUnconfigures ==
  [][\A r \in 1..MaxRuns :
       InvalidCredentialFailure(r) =>
         LET k == runs[r].i
             P == ProviderOf(runs[r].agents[k])
         IN /\ agents'[k].status = AgentStatus.Error
            /\ agents'[k].error # Null
            /\ Includes(agents'[k].error.s, <<"API", "key">>)
            /\ runs'[r].pc = "idle"
            /\ effectiveKey(envKey', userKey', P) = ""]_vars

C9_ErrorHasNoOutput ==
  [][RunEnds =>
       \A j \in 1..Len(agents') :
         agents'[j].status = AgentStatus.Error =>
           /\ agents'[j].error # Null
           /\ agents'[j].output = Null /\ agents'[j].outputJson = Null]_vars

\* C10: when a run ends, the aggregator has run over the final agent list: what
\* it finds there is the aggregated result
C10_AggregatorInvoked ==
  [][RunEnds =>
       LET a == analyzeResults(agents')
       IN (~a.threw /\ a.found) => analysisResult' = a.result]_vars

\* C11: in every reachable state no agent of the registry has both output and
\* error populated
C11_OutputOrError ==
  \A j \in 1..Len(agents) : agents[j].output = Null \/ agents[j].error = Null

\* C12: in every reachable state an agent whose outputJson is populated has
\* status Success
C12_JsonOnlyOnSuccess ==
  \A j \in 1..Len(agents) :
    agents[j].outputJson # Null => agents[j].status = AgentStatus.Success

\* C13: resetAll, applied to the registry of any reachable state, yields a list
\* of the same length whose agents are Pending with output, error and
\* outputJson absent and keep their id, name, prompt and model in place
C13_ResetAll ==
  LET list == resetAll(agents) IN
    /\ Len(list) = Len(agents)
    /\ \A j \in 1..Len(agents) :
         /\ Untouched(list[j])
         /\ list[j].id = agents[j].id /\ list[j].name = agents[j].name
         /\ list[j].prompt = agents[j].prompt /\ list[j].model = agents[j].model
\* a run was started over a registry whose second agent had ended the previous
\* run in Error and whose first agent had ended it in Success: the run's list
\* holds both reset
C13_Witness ==
  \E r \in 1..MaxRuns :
    /\ runs[r].pc = "awaiting" /\ runs[r].i = 1 /\ Len(runs[r].agents) = 2
    /\ runs[r].agents[1].status = AgentStatus.Success
    /\ runs[r].agents[1].output # Null
    /\ runs[r].agents[2].status = AgentStatus.Error
    /\ runs[r].agents[2].error # Null
    /\ runs[r].agents[1].id # runs[r].agents[2].id
    /\ Untouched(runs[r].currentAgents[2])
    /\ runs[r].currentAgents[1].output = Null

\* C14: when a run ends, an aggregated result that is present is the one the
\* aggregator derives from the Success agents of that run's final list; when
\* that list yields neither a sentiment nor entities the result is absent
C14_NoStaleResult ==
  [][RunEnds =>
       LET a == analyzeResults(agents')
       IN analysisResult' # Null =>
            (~a.threw /\ a.found /\ analysisResult' = a.result)]_vars


\* the name by which a message refers to a provider
ProviderLabel(p) == IF p = "gemini" THEN "Gemini" ELSE "OpenAI"
\* the providers named by some agent of the registry that have no credential
MissingProviders ==
  { p \in Providers : /\ ~isKeySet(p)
                      /\ \E j \in 1..Len(agents) : ProviderOf(agents[j]) = p }

\* C15: when a click on Run is refused for a missing credential, the message
\* shown to the user names every provider that some agent of the registry
\* refers to and that has no configured credential, not only the first found.
C15_RefusalNamesAll ==
  [][(runRefused /\ variant # "part_001") =>
       \A p \in MissingProviders : Includes(apiKeyError', <<ProviderLabel(p)>>)]_vars


\* the provider prefix of a model identifier: split('/')[0]
ProviderPrefix(model) == IF model = <<>> THEN "" ELSE Head(model)
\* what the claim expects of a step in which the run reaches, at index k, an
\* agent whose model names no known backend: no request is sent, the agent is
\* in Error with the unsupported-provider message, later agents are Pending
UnsupportedOutcome(k, model) ==
  /\ \A r \in DOMAIN runs : runs'[r] # runs[r] => runs'[r].pc = "idle"
  /\ k <= Len(agents')
  /\ agents'[k].status = AgentStatus.Error
  /\ agents'[k].error = Str(UnsupportedProvider(ProviderPrefix(model)))
  /\ \A j \in (k + 1)..Len(agents') : agents'[j].status = AgentStatus.Pending

\* C16: when a run reaches an agent whose model identifier has a provider
\* prefix other than gemini and openai (an identifier without '/' included),
\* no request goes to a provider, the run ends with that agent in Error with
\* the unsupported-provider message, and every later agent is Pending.
C16_UnsupportedProvider ==
  [][variant # "part_001" =>
       /\ (runStarted /\ ProviderPrefix(agents[1].model) \notin Providers)
            => UnsupportedOutcome(1, agents[1].model)
       /\ \A r \in DOMAIN runs : \A text \in ProviderTexts :
            (/\ providerReturns(r, text)
             /\ runs[r].i < Len(runs[r].agents)
             /\ ProviderPrefix(runs[r].agents[runs[r].i + 1].model) \notin Providers)
              => UnsupportedOutcome(runs[r].i + 1, runs[r].agents[runs[r].i + 1].model)]_vars


\* the Extractor finds a parseable JSON value: its JSON.parse call returns
ExtractorFinds(v, text) ==
  IF v = "part_001" THEN tryParseP1(text).ok ELSE tryParseApp(text).ok

\* C17: when the provider's call for the agent at index i returns a text, that
\* agent is in Success with the text as its output and the Extractor's result
\* on the text as its outputJson, which is absent if and only if the Extractor
\* finds no parseable JSON value in the text; every other agent in Success
\* keeps the output and outputJson its own call gave it.
C17_OutputAndJson ==
  [][\A r \in DOMAIN runs : \A text \in ProviderTexts :
       providerReturns(r, text) =>
         LET i == runs[r].i IN
         /\ i <= Len(agents')
         /\ agents'[i].status = AgentStatus.Success
         /\ agents'[i].output = Str(text)
         /\ agents'[i].outputJson = parseJsonOutput(variant, text)
         /\ agents'[i].outputJson = Null <=> ~ExtractorFinds(variant, text)
         /\ \A k \in 1..Len(agents') :
              (k # i /\ agents'[k].status = AgentStatus.Success) =>
                /\ runs[r].currentAgents[k].status = AgentStatus.Success
                /\ agents'[k].output = runs[r].currentAgents[k].output
                /\ agents'[k].outputJson = runs[r].currentAgents[k].outputJson]_vars


\* C18: a document load leaves the registry empty and the aggregated result
\* absent, and an empty registry stays empty in every step that is not the
\* user's adding an agent, also while a run started before the load is still
\* awaiting its provider call.
C18_RegistryEmptyAfterLoad ==
  [][/\ (\E file \in Files : handleFileChange(file))
          => (agents' = <<>> /\ analysisResult' = Null)
     /\ (/\ agents = <<>>
         /\ ~ \E template \in DEFAULT_AGENTS, dt \in 0..MaxClock : addAgent(template, dt))
          => agents' = <<>>]_vars


\* C19: in every reachable state the agents of the registry have pairwise
\* distinct ids, also after two adds within the same clock millisecond.
C19_DistinctIds ==
  \A j \in 1..Len(agents) : \A k \in 1..Len(agents) :
    j # k => agents[j].id # agents[k].id


\* C20: a change of the prompt or model of the agent with a given id changes
\* that field of exactly one agent, the one with that id, and leaves every
\* other agent, every other field of that agent and the order of the list as
\* they were.
C20_UpdateOne ==
  [][\A id \in 0..MaxClock, field \in {"prompt", "model"},
        value \in PromptInputs \cup ModelInputs :
       handleAgentChange(id, field, value) =>
         /\ Len(agents') = Len(agents)
         /\ \E j \in 1..Len(agents) :
              /\ agents[j].id = id
              /\ agents'[j] = [agents[j] EXCEPT ![field] = value]
              /\ \A k \in 1..Len(agents) : k # j => agents'[k] = agents[k]]_vars


\* C21: the removal of the agent with a given id deletes exactly one agent,
\* the one with that id, and keeps the remaining agents as they were and in
\* their previous relative order.
C21_RemoveOne ==
  [][\A id \in 0..MaxClock :
       handleDeleteAgent(id) =>
         \E j \in 1..Len(agents) :
           agents[j].id = id /\ agents' = RemoveAt(agents, j)]_vars


\* C22: an add appends the new agent at the end of the list, Pending with
\* output, error and outputJson absent, name and prompt copied from the
\* template, the model copied from the template when the template gives one
\* and the default model otherwise; the agents already there are unchanged.
C22_AddAppends ==
  [][\A template \in DEFAULT_AGENTS \cup {TemplateWithModel}, dt \in 0..MaxClock :
       addAgent(template, dt) =>
         /\ Len(agents') = Len(agents) + 1
         /\ SubSeq(agents', 1, Len(agents)) = agents
         /\ LET newAgent == agents'[Len(agents')] IN
            /\ Untouched(newAgent)
            /\ newAgent.name = template.name
            /\ newAgent.prompt = template.prompt
            /\ newAgent.model = IF "model" \in DOMAIN template THEN template.model
                                ELSE IF variant = "part_001" THEN <<>>
                                     ELSE MODEL_OPTIONS[1]]_vars


\* the agent the aggregator reads for a role in the list a run ends with, its
\* structured output and the sentiment label in it (Undef when there is none)
RoleJson(list, name) ==
  IF FindRole(list, name) = 0 THEN Null ELSE list[FindRole(list, name)].outputJson
LabelOf(list) == GetProp(RoleJson(list, "Sentiment Analyzer"), "sentiment")
\* the histogram the claim expects for a label
HistogramOf(label) ==
  LET s == IF label.t = "str" THEN toLowerCase(label.s) ELSE <<>> IN
  IF s = <<"positive">> THEN Obj([positive |-> 1, negative |-> 0, neutral |-> 0])
  ELSE IF s = <<"negative">> THEN Obj([positive |-> 0, negative |-> 1, neutral |-> 0])
  ELSE Obj([positive |-> 0, negative |-> 0, neutral |-> 1])

\* C23: when a run ends, the aggregator does not raise, and if the Success
\* agent with the sentiment role has a sentiment label in its outputJson the
\* aggregated result holds the histogram with 1 for positive or negative when
\* the label, compared without regard to case, says so, and 1 for neutral for
\* every other label value.
C23_SentimentHistogram ==
  [][(RunEnds /\ variant # "App.tsx") =>
       /\ ~analyzeResults(agents').threw
       /\ LabelOf(agents') # Undef =>
            /\ analysisResult' # Null
            /\ analysisResult'.sentiment = HistogramOf(LabelOf(agents'))]_vars


\* the entries of a list that expose both a name and a type, in their order
RECURSIVE NamedAndTyped(_)
NamedAndTyped(list) ==
  IF list = <<>> THEN <<>>
  ELSE LET e    == Head(list)
           keep == e.t = "obj" /\ "name" \in DOMAIN e.o /\ "type" \in DOMAIN e.o
       IN (IF keep THEN <<e>> ELSE <<>>) \o NamedAndTyped(Tail(list))

\* C24: when a run ends and the Success agent with the entity-extraction role
\* has a list as its outputJson, the aggregator's entities are exactly the
\* entries of the list that expose both a name and a type, in their original
\* order; without such an agent, or with an outputJson that is not a list, the
\* entities are absent.
C24_EntitiesFiltered ==
  [][(RunEnds /\ variant # "App.tsx") =>
       LET eJson == RoleJson(agents', "Entity Extractor")
           a     == analyzeResults(agents')
       IN IF eJson.t = "arr"
          THEN ~a.threw /\ a.result.entities = Arr(NamedAndTyped(eJson.a))
          ELSE a.result.entities = Null]_vars


\* what the aggregator has to find in the list a run ends with
FoundSentiment(list) == Truthy(LabelOf(list))
FoundEntities(list) ==
  LET eJson == RoleJson(list, "Entity Extractor") IN
  eJson.t = "arr" /\ NamedAndTyped(eJson.a) # <<>>

\* C25: when a run ends, the view is switched to the results summary and the
\* aggregated result is set if the list holds a sentiment or a non-empty list
\* of entities; if it holds neither, the aggregated result is absent and the
\* active view is the one before the step.
C25_ViewSwitch ==
  [][(RunEnds /\ variant # "App.tsx") =>
       IF FoundSentiment(agents') \/ FoundEntities(agents')
       THEN activeTab' = "dashboard" /\ analysisResult' # Null
       ELSE activeTab' = activeTab /\ analysisResult' = Null]_vars


\* C26: for every JSON value v, when the provider returns JSON.stringify(v)
\* wrapped in a fenced block tagged json, the Extractor's result, stored as
\* the agent's outputJson, is a value equal to v.
C26_RoundTrip ==
  [][\A r \in DOMAIN runs :
       (runs[r].pc = "awaiting" /\ runs'[r] # runs[r] /\ runs[r].i <= Len(agents')) =>
         \A rt \in RoundTrips :
           agents'[runs[r].i].output = Str(rt.text) =>
             /\ parseJsonOutput(variant, rt.text) = rt.v
             /\ agents'[runs[r].i].outputJson = rt.v]_vars
\* two agents hold the nested list and the nested object they were sent
C26_Witness ==
  /\ Len(agents) = 2
  /\ agents[1].status = AgentStatus.Success /\ agents[2].status = AgentStatus.Success
  /\ agents[1].output =
       Str(Fenced(JSONstringify(Arr(<<Num(1), Obj([name |-> Str(<<"Acme">>)]), Null>>))))
  /\ agents[1].outputJson = Arr(<<Num(1), Obj([name |-> Str(<<"Acme">>)]), Null>>)
  /\ agents[2].outputJson =
       Obj([sentiment |-> Str(<<"Positive">>), type |-> Arr(<<Str(<<"ORG">>), Num(0)>>)])
  /\ Len(agents[2].output.s) = 15


\* the text an agent was given in the step of run r that has just been taken
Returned(r, text) ==
  /\ runs[r].pc = "awaiting" /\ runs'[r] # runs[r] /\ runs[r].i <= Len(agents')
  /\ agents'[runs[r].i].output = Str(text)
\* the value of a candidate, absent when it does not parse
ValueOf(cand) == IF JSONparse(cand).ok THEN JSONparse(cand).v ELSE Null
HasFence(text) == \E k \in 1..Len(text) : FenceAt(text, k)
FirstFence(text) == CHOOSE k \in 1..Len(text) :
                      FenceAt(text, k) /\ \A m \in 1..(k - 1) : ~FenceAt(text, m)

\* C27: when the text the provider returns contains a fenced json block, the
\* Extractor's result is the parse of the interior of that block, or absent
\* if the interior does not parse, whatever object or array literal stands
\* elsewhere in the text, before the block included.
C27_FencePriority ==
  [][\A r \in DOMAIN runs : \A text \in ExtractTexts :
       (Returned(r, text) /\ HasFence(text)) =>
         agents'[runs[r].i].outputJson = ValueOf(FenceInterior(text, FirstFence(text)))]_vars

\* the end of the balanced literal that opens at position p (0 when it is not closed)
RECURSIVE BalancedEnd(_, _, _)
BalancedEnd(text, p, depth) ==
  IF p > Len(text) THEN 0
  ELSE LET d == IF text[p] \in {"{", "["} THEN depth + 1
                ELSE IF text[p] \in {"}", "]"} THEN depth - 1 ELSE depth
       IN IF d = 0 THEN p ELSE BalancedEnd(text, p + 1, d)
LiteralStarts(text) ==
  {k \in 1..Len(text) : text[k] \in {"{", "["} /\ BalancedEnd(text, k, 0) # 0}
FirstLiteral(text) ==
  LET k == CHOOSE k \in LiteralStarts(text) : \A m \in LiteralStarts(text) : k <= m
  IN SubText(text, k, BalancedEnd(text, k, 0))

\* C28: when the text the provider returns has no fenced json block, the
\* Extractor's result is the parse of the first balanced object or array
\* literal in the text, prose around it or not, and the parse of the whole
\* text only when there is no such literal.
C28_LiteralFallback ==
  [][\A r \in DOMAIN runs : \A text \in ExtractTexts :
       (Returned(r, text) /\ ~HasFence(text)) =>
         agents'[runs[r].i].outputJson =
           IF LiteralStarts(text) # {} THEN ValueOf(FirstLiteral(text))
           ELSE ValueOf(text)]_vars


\* C29: when the provider returns a text in which the Extractor finds no
\* parseable JSON value, the Extractor's result is absent and nothing is
\* raised: the agent is in Success with outputJson and error absent, no agent
\* is put in Error, and the loop goes on to the next agent of the run.
C29_ExtractionTolerated ==
  [][\A r \in DOMAIN runs : \A text \in ProviderTexts \cup ExtractTexts :
       (Returned(r, text) /\ ~ExtractorFinds(variant, text)) =>
         LET i == runs[r].i IN
         /\ parseJsonOutput(variant, text) = Null
         /\ agents'[i].status = AgentStatus.Success
         /\ agents'[i].outputJson = Null /\ agents'[i].error = Null
         /\ \A k \in 1..Len(agents') : agents'[k].status # AgentStatus.Error
         /\ i < Len(runs[r].agents) => (runs'[r].pc = "awaiting" /\ runs'[r].i = i + 1)
         /\ i = Len(runs[r].agents) => runs'[r].pc = "idle"]_vars


\* C30: the prompt text of the request a run has sent for the agent at index
\* i is built from the document content and that agent's prompt alone, as
\* the run captured them, and contains the output of no agent before it.
C30_PromptFromDocumentOnly ==
  \A r \in DOMAIN runs :
    runs[r].pc = "awaiting" =>
      LET i == runs[r].i IN
      /\ runs[r].request.prompt = fullPrompt(runs[r].content, runs[r].agents[i].prompt)
      /\ \A k \in 1..(i - 1) :
           runs[r].currentAgents[k].output # Null =>
             ~Includes(runs[r].request.prompt, runs[r].currentAgents[k].output.s)
\* the request for the second agent is in flight after the first agent's call
\* returned a text, over a loaded document
C30_Witness ==
  \E r \in DOMAIN runs :
    /\ runs[r].pc = "awaiting" /\ runs[r].i = 2
    /\ runs[r].content # <<>>
    /\ runs[r].currentAgents[1].status = AgentStatus.Success
    /\ runs[r].currentAgents[1].output = Str(SentimentText)
    /\ runs[r].agents[1].prompt # runs[r].agents[2].prompt
    /\ Includes(runs[r].request.prompt, runs[r].agents[2].prompt)
    /\ Includes(runs[r].request.prompt, runs[r].content)


\* agent j is the first one of the list with that role name and status Success
IsFirstOfRole(list, j, name) ==
  /\ list[j].name = name /\ list[j].status = AgentStatus.Success
  /\ \A m \in 1..(j - 1) :
       ~(list[m].name = name /\ list[m].status = AgentStatus.Success)

\* C31: when a run ends with an aggregated result, its sentiment is the one of
\* the first agent in registry order named for the sentiment role and in
\* Success, and its entities are those of the first agent named for the
\* entity role and in Success; later agents of the same name are ignored.
C31_FirstMatch ==
  [][(RunEnds /\ variant # "App.tsx" /\ analysisResult' # analysisResult) =>
       /\ \A j \in 1..Len(agents') :
            IsFirstOfRole(agents', j, "Sentiment Analyzer") =>
              LET label == GetProp(agents'[j].outputJson, "sentiment") IN
              analysisResult'.sentiment =
                IF Truthy(label) THEN HistogramOf(label) ELSE Null
       /\ \A j \in 1..Len(agents') :
            IsFirstOfRole(agents', j, "Entity Extractor") =>
              analysisResult'.entities =
                IF agents'[j].outputJson.t = "arr"
                THEN Arr(NamedAndTyped(agents'[j].outputJson.a)) ELSE Null]_vars
\* two agents of the sentiment role ended in Success with different labels and
\* the result shows the label of the first
C31_Witness ==
  /\ Len(agents) = 2 /\ ~isProcessing
  /\ agents[1].name = "Sentiment Analyzer" /\ agents[2].name = "Sentiment Analyzer"
  /\ agents[1].status = AgentStatus.Success /\ agents[2].status = AgentStatus.Success
  /\ agents[1].output = Str(MixedText) /\ agents[2].output = Str(SentimentText)
  /\ analysisResult # Null
  /\ analysisResult.sentiment = Obj([positive |-> 0, negative |-> 0, neutral |-> 1])


\* C32: a run that has passed its preconditions terminates: from every state
\* in which the processing flag is set, a state is reached in which the flag
\* is cleared and no agent is Running, whatever the provider returns.
C32_RunTerminates ==
  isProcessing ~> (~isProcessing /\ RunningAgents = {})


\* C33: at most one run is in flight, and the processing flag is set for as
\* long as a run is in flight (also after a document was loaded or an agent
\* added while the run awaits its provider).
RunsInFlight == {r \in DOMAIN runs : runs[r].pc # "idle"}
C33_OneRunInFlight ==
  /\ Cardinality(RunsInFlight) <= 1
  /\ RunsInFlight # {} => isProcessing


\* C34: an edit of the registry made while a run is in flight is preserved:
\* a status write of the run neither re-inserts a removed agent, nor drops an
\* added agent, nor reverts an edited prompt or model.
StatusWrite == \E r \in DOMAIN runs : runs[r].pc = "awaiting" /\ runs'[r] # runs[r]
C34_EditsPreserved ==
  [][StatusWrite =>
       /\ Len(agents') = Len(agents)
       /\ \A j \in 1..Len(agents) :
            /\ agents'[j].id = agents[j].id
            /\ agents'[j].name = agents[j].name
            /\ agents'[j].prompt = agents[j].prompt
            /\ agents'[j].model = agents[j].model]_vars


\* C35: every call to the gateway uses what the run captured when it started:
\* the run takes the registry and the document content of its start, keeps
\* them to its end, and the request in flight carries the model and the
\* prompt of the captured agent over the captured content.
C35_CapturedAtStart ==
  [][\A r \in DOMAIN runs :
       /\ (runs[r].pc = "idle" /\ runs'[r].pc # "idle") =>
            /\ runs'[r].agents = agents
            /\ runs'[r].content = documentFile.content
       /\ (runs[r].pc # "idle" /\ runs'[r].pc # "idle") =>
            /\ runs'[r].agents = runs[r].agents
            /\ runs'[r].content = runs[r].content
       /\ runs'[r].pc = "awaiting" =>
            LET agent == runs'[r].agents[runs'[r].i] IN
            /\ runs'[r].request.model = agent.model
            /\ runs'[r].request.prompt = fullPrompt(runs'[r].content, agent.prompt)]_vars
\* the call for the second agent is in flight over the captured content after
\* another document has been read
C35_Witness ==
  \E r \in DOMAIN runs :
    /\ runs[r].pc = "awaiting"
    /\ runs[r].i = 2
    /\ documentFile.content # runs[r].content
    /\ agents = runs[r].currentAgents
    /\ runs[r].request.prompt = fullPrompt(runs[r].content, runs[r].agents[2].prompt)
    /\ runs[r].request.prompt # fullPrompt(documentFile.content, runs[r].agents[2].prompt)


\* C36: while a run is in flight the aggregated result is absent: it is
\* cleared when the run passes its preconditions and set again only by the
\* aggregator after the loop.
C36_NoResultInFlight ==
  RunsInFlight # {} => analysisResult = Null


\* C37: the service handle of a provider is present exactly when the
\* provider's effective credential is non-empty; in particular the handle is
\* gone once the credential has been invalidated.
HandledProviders == IF variant = "part_001" THEN {"gemini"} ELSE Providers
C37_HandleIffCredential ==
  \A p \in HandledProviders :
    handles[p] # "" <=> effectiveKey(envKey, userKey, p) # ""


\* C38: no run dispatches an agent while the ingestion of a PDF is unfinished:
\* the OCR flag is set for as long as a PDF is being processed, a call to the
\* gateway is dispatched only when no PDF is being processed, and no request
\* carries the placeholder content of a PDF that has not been read.
PdfInProgress == \E l \in 1..Len(loads) : loads[l].kind = "pdf"
C38_NoDispatchDuringOcr ==
  /\ PdfInProgress => isOcrProcessing
  /\ \A r \in DOMAIN runs :
       runs[r].pc = "awaiting" =>
         /\ runs[r].content # ProcessingPdf
         /\ ~Includes(runs[r].request.prompt, ProcessingPdf)

====
